---- MODULE Spec2Model ----
(***************************************************************************)
(* Model of the buzzer fuzzing core: the mutex-guarded MetricsCollection,  *)
(* the ControlUnit (Init / IsReady / RunFuzzer) and the eBPF memory        *)
(* instruction constructors with their bytecode generation.                *)
(***************************************************************************)
EXTENDS Integers, Sequences, FiniteSets, TLC

\* ------------------------------------------------------------------ bounds
\* Number of fuzzing threads that record outcomes (the N of the stress test).
NumThreads == 2
\* Number of calls each thread makes to each record operation (the M).
CallsPerThread == 2

\* Number of goroutines that may call ControlUnit.RunFuzzer.
NumCallers == 2
\* Number of RunFuzzer calls made in one behaviour.
MaxRuns == 2

\* ------------------------------------------------------------- variables
\* MetricsCollection and the threads that use it.
VARIABLES metricsLock, programsVerified, validPrograms, pc, op, tmp, calls,
          retPV, retVP
\* ControlUnit, its callers and the record of what the bound strategy was given.
VARIABLES strat, ex, cm, rdy, lastInit, okInit, cupc, fuzzStarts,
          lastFuzz, panicked
\* The memory instruction under construction, its bytecode and reproduction
\* text; the program the playground generator returned and its encoding.
VARIABLES req, ins, bytecode, poc, program, encoded
\* The coverage manager's raw map, the breakdown getMetrics is building (and
\* then returns), the paths its range loop has produced and the values the raw
\* map has had since getMetrics took the lock.
VARIABLES coverageInfoMap, covArray, covVisited, covSeen

mvars == <<metricsLock, programsVerified, validPrograms, pc, op, tmp, calls,
           retPV, retVP>>
cuvars == <<strat, ex, cm, rdy, lastInit, okInit, cupc, fuzzStarts,
            lastFuzz, panicked>>
insvars == <<req, ins, bytecode, poc, program, encoded>>
covvars == <<coverageInfoMap, covArray, covVisited, covSeen>>
vars == <<mvars, cuvars, insvars, covvars>>

\* --------------------------------------------------------------- metrics
Writers == 1..NumThreads
\* The status-reporting path that reads the metrics.
Reporter == NumThreads + 1
Threads == Writers \cup {Reporter}
NoOwner == 0

RecordOps == {"recordVerifiedProgram", "recordValidProgram"}
ReadOps == {"getProgramsVerified", "getMetrics"}

\* A mutex that excludes nobody: Lock() always succeeds.
MutexFreeAlways(m) == TRUE

\* sync.Mutex: Lock() succeeds only while no thread holds the mutex.
MutexFree(m) == m = NoOwner

\* --------------------------------------------------------------- coverage
MaxCoverageUpdates == 2

\* File paths, as the sequence of their characters.
Paths == {<<"a", "/", "b">>, <<"b">>}
\* Line numbers the coverage collaborator reports.
Lines == {1, 2}

\* A map without entries.
EmptyMap == [q \in {} |-> <<>>]

\* m[filePath] = append(m[filePath], line)
MapAppend(m, filePath, line) ==
    [q \in DOMAIN m \cup {filePath} |->
        IF q = filePath
           THEN (IF q \in DOMAIN m THEN Append(m[q], line) ELSE <<line>>)
           ELSE m[q]]

RECURSIVE TotalLines(_, _)
TotalLines(m, ps) ==
    IF ps = {} THEN 0
    ELSE LET q == CHOOSE x \in ps : TRUE
         IN  Len(m[q]) + TotalLines(m, ps \ {q})

\* strings.Split(s, "/"): the substrings between the separators; a string
\* without separator, the empty string included, yields itself.
RECURSIVE Split(_)
Split(str) ==
    IF \A i \in 1..Len(str) : str[i] # "/"
       THEN <<str>>
       ELSE LET i == CHOOSE j \in 1..Len(str) :
                         str[j] = "/" /\ \A k \in 1..(j - 1) : str[k] # "/"
            IN  <<SubSeq(str, 1, i - 1)>> \o Split(SubSeq(str, i + 1, Len(str)))

\* A Go slice: the array it points into, its elements and its capacity.
Slice(backing, elems, cap) == [backing |-> backing, elems |-> elems, cap |-> cap]
\* An array allocated by getMetrics.
NewArray == <<"new">>
\* []int{}
EmptySlice == Slice(NewArray, <<>>, 0)
\* The slice the raw map holds for filePath: it points into the manager's array.
RawSlice(m, filePath) == Slice(filePath, m[filePath], Len(m[filePath]))

\* The breakdown keeps the raw map's own slice instead of copying it.
GoAppendAliases(dst, src) == src

\* append(dst, src...): in place while the capacity suffices, else in a new array.
GoAppend(dst, src) ==
    IF Len(dst.elems) + Len(src.elems) <= dst.cap
       THEN [dst EXCEPT !.elems = @ \o src.elems]
       ELSE Slice(NewArray, dst.elems \o src.elems, Len(dst.elems) + Len(src.elems))

\* The display name is taken from the first segment instead of the last.
fileNameFirst(pathSplit) == pathSplit[1]

\* pathSplit[len(pathSplit)-1]
fileName(pathSplit) == pathSplit[Len(pathSplit)]

\* The body of the range loop for one entry of the raw map: the breakdown with
\* the entry's CoverageInfo appended, or unchanged when the split is empty.
covInfo(array, filePath, cov) ==
    LET pathSplit == Split(filePath)
    IN  IF Len(pathSplit) = 0
           THEN array
           ELSE Append(array, [fileName |-> fileName(pathSplit),
                               fullPath |-> filePath,
                               coveredLines |-> GoAppend(EmptySlice, cov)])

\* A coverage manager that has processed no coverage yet.
CoverageInit ==
    /\ coverageInfoMap = EmptyMap
    /\ covArray = <<>>
    /\ covVisited = {}
    /\ covSeen = {}

MetricsInit ==
    /\ metricsLock = NoOwner
    /\ programsVerified = 0
    /\ validPrograms = 0
    /\ pc = [t \in Threads |-> "idle"]
    /\ op = [t \in Threads |-> "none"]
    /\ tmp = [t \in Threads |-> 0]
    /\ calls = [t \in Writers |-> [o \in RecordOps |-> 0]]
    /\ retPV = 0
    /\ retVP = 0

\* A record operation that starts without taking metricsLock.
LockRecordUnguarded(t, o) ==
    /\ pc[t] = "idle"
    /\ pc' = [pc EXCEPT ![t] = "load"]
    /\ op' = [op EXCEPT ![t] = o]
    /\ calls' = [calls EXCEPT ![t][o] = @ + 1]
    /\ UNCHANGED <<metricsLock, programsVerified, validPrograms, tmp, retPV, retVP>>
    /\ UNCHANGED <<cuvars, insvars, covvars>>

\* mc.metricsLock.Lock() at the head of a record operation o called by t.
LockRecord(t, o) ==
    /\ pc[t] = "idle"
    /\ MutexFree(metricsLock)
    /\ metricsLock' = t
    /\ pc' = [pc EXCEPT ![t] = "load"]
    /\ op' = [op EXCEPT ![t] = o]
    /\ calls' = [calls EXCEPT ![t][o] = @ + 1]
    /\ UNCHANGED <<programsVerified, validPrograms, tmp, retPV, retVP>>
    /\ UNCHANGED <<cuvars, insvars, covvars>>

\* A stress-test thread calls either record operation, CallsPerThread times each.
Record(t, o) ==
    /\ calls[t][o] < CallsPerThread
    /\ LockRecord(t, o)

\* A fuzzing thread records a program as valid only after recording it as verified.
FuzzRecord(t, o) ==
    /\ calls[t][o] < CallsPerThread
    /\ o = "recordValidProgram" =>
           calls[t]["recordValidProgram"] < calls[t]["recordVerifiedProgram"]
    /\ LockRecord(t, o)

\* counter++ : the load half.
LoadCounter(t) ==
    /\ pc[t] = "load"
    /\ tmp' = [tmp EXCEPT ![t] =
                 IF op[t] = "recordVerifiedProgram" THEN programsVerified
                                                    ELSE validPrograms]
    /\ pc' = [pc EXCEPT ![t] = "store"]
    /\ UNCHANGED <<metricsLock, programsVerified, validPrograms, op, calls,
                   retPV, retVP>>
    /\ UNCHANGED <<cuvars, insvars, covvars>>

\* counter++ : the store half.
StoreCounter(t) ==
    /\ pc[t] = "store"
    /\ IF op[t] = "recordVerifiedProgram"
          THEN programsVerified' = tmp[t] + 1 /\ UNCHANGED validPrograms
          ELSE validPrograms' = tmp[t] + 1 /\ UNCHANGED programsVerified
    /\ tmp' = [tmp EXCEPT ![t] = 0]
    /\ pc' = [pc EXCEPT ![t] = "unlock"]
    /\ UNCHANGED <<metricsLock, op, calls, retPV, retVP>>
    /\ UNCHANGED <<cuvars, insvars, covvars>>

\* A record operation that returns without its deferred Unlock().
UnlockRecordKeepsLock(t) ==
    /\ pc[t] = "unlock"
    /\ t \in Writers
    /\ pc' = [pc EXCEPT ![t] = "idle"]
    /\ op' = [op EXCEPT ![t] = "none"]
    /\ UNCHANGED <<metricsLock, programsVerified, validPrograms, tmp, calls,
                   retPV, retVP>>
    /\ UNCHANGED <<cuvars, insvars, covvars>>

\* The deferred mc.metricsLock.Unlock() of a record operation; the call returns.
UnlockRecord(t) ==
    /\ pc[t] = "unlock"
    /\ t \in Writers
    /\ metricsLock' = NoOwner
    /\ pc' = [pc EXCEPT ![t] = "idle"]
    /\ op' = [op EXCEPT ![t] = "none"]
    /\ UNCHANGED <<programsVerified, validPrograms, tmp, calls, retPV, retVP>>
    /\ UNCHANGED <<cuvars, insvars, covvars>>

\* A fuzzing thread that is in no metrics operation submits a program to the
\* executor and blocks in it.
Submit(t) ==
    /\ pc[t] = "idle"
    /\ pc' = [pc EXCEPT ![t] = "executor"]
    /\ UNCHANGED <<metricsLock, programsVerified, validPrograms, op, tmp, calls,
                   retPV, retVP>>
    /\ UNCHANGED <<cuvars, insvars, covvars>>

\* The verifier call returns.  Nothing obliges it to: a wedged call never does.
ExecutorReturn(t) ==
    /\ pc[t] = "executor"
    /\ pc' = [pc EXCEPT ![t] = "idle"]
    /\ UNCHANGED <<metricsLock, programsVerified, validPrograms, op, tmp, calls,
                   retPV, retVP>>
    /\ UNCHANGED <<cuvars, insvars, covvars>>

\* A read operation that starts without taking metricsLock.
LockReadUnguarded(o) ==
    /\ pc[Reporter] = "idle"
    /\ pc' = [pc EXCEPT ![Reporter] = IF o = "getMetrics" THEN "range" ELSE "readPV"]
    /\ op' = [op EXCEPT ![Reporter] = o]
    /\ IF o = "getMetrics"
          THEN /\ covArray' = <<>>
               /\ covVisited' = {}
               /\ covSeen' = {coverageInfoMap}
          ELSE UNCHANGED <<covArray, covVisited, covSeen>>
    /\ UNCHANGED <<metricsLock, programsVerified, validPrograms, tmp, calls,
                   retPV, retVP, coverageInfoMap>>
    /\ UNCHANGED <<cuvars, insvars>>

\* The reporter calls a read operation o: mc.metricsLock.Lock(); getMetrics
\* then starts with covArray := []CoverageInfo{} and enters its range loop.
LockRead(o) ==
    /\ pc[Reporter] = "idle"
    /\ MutexFree(metricsLock)
    /\ metricsLock' = Reporter
    /\ pc' = [pc EXCEPT ![Reporter] = IF o = "getMetrics" THEN "range" ELSE "readPV"]
    /\ op' = [op EXCEPT ![Reporter] = o]
    /\ IF o = "getMetrics"
          THEN /\ covArray' = <<>>
               /\ covVisited' = {}
               /\ covSeen' = {coverageInfoMap}
          ELSE UNCHANGED <<covArray, covVisited, covSeen>>
    /\ UNCHANGED <<programsVerified, validPrograms, tmp, calls,
                   retPV, retVP, coverageInfoMap>>
    /\ UNCHANGED <<cuvars, insvars>>

\* The reporter calls a read operation o and reaches mc.metricsLock.Lock().
CallRead(o) ==
    /\ pc[Reporter] = "idle"
    /\ pc' = [pc EXCEPT ![Reporter] = "lock"]
    /\ op' = [op EXCEPT ![Reporter] = o]
    /\ UNCHANGED <<metricsLock, programsVerified, validPrograms, tmp, calls,
                   retPV, retVP>>
    /\ UNCHANGED <<cuvars, insvars, covvars>>

\* mc.metricsLock.Lock() of the reporter's pending call returns.
AcquireRead ==
    /\ pc[Reporter] = "lock"
    /\ MutexFree(metricsLock)
    /\ metricsLock' = Reporter
    /\ pc' = [pc EXCEPT ![Reporter] =
                IF op[Reporter] = "getMetrics" THEN "range" ELSE "readPV"]
    /\ IF op[Reporter] = "getMetrics"
          THEN /\ covArray' = <<>>
               /\ covVisited' = {}
               /\ covSeen' = {coverageInfoMap}
          ELSE UNCHANGED <<covArray, covVisited, covSeen>>
    /\ UNCHANGED <<programsVerified, validPrograms, op, tmp, calls,
                   retPV, retVP, coverageInfoMap>>
    /\ UNCHANGED <<cuvars, insvars>>

\* One iteration of for filePath, cov := range *GetCoverageInfoMap(): the loop
\* produces an entry of the map it has not produced yet.
RangeStep(filePath) ==
    /\ pc[Reporter] = "range"
    /\ filePath \in DOMAIN coverageInfoMap \ covVisited
    /\ covVisited' = covVisited \cup {filePath}
    /\ covArray' = covInfo(covArray, filePath, RawSlice(coverageInfoMap, filePath))
    /\ UNCHANGED <<coverageInfoMap, covSeen>>
    /\ UNCHANGED <<mvars, cuvars, insvars>>

\* The keys the raw map has had ever since the loop started.
KeysAtLoopStart == {q \in DOMAIN coverageInfoMap : \A m \in covSeen : q \in DOMAIN m}

\* The range loop ends.  Every entry present since the loop started has been
\* produced; an entry inserted during the iteration may have been skipped.
RangeDone ==
    /\ pc[Reporter] = "range"
    /\ KeysAtLoopStart \subseteq covVisited
    /\ pc' = [pc EXCEPT ![Reporter] = "readPV"]
    /\ UNCHANGED <<metricsLock, programsVerified, validPrograms, op, tmp, calls,
                   retPV, retVP>>
    /\ UNCHANGED <<cuvars, insvars, covvars>>

\* Evaluation of mc.programsVerified in the return statement.
ReadVerified ==
    /\ pc[Reporter] = "readPV"
    /\ retPV' = programsVerified
    /\ pc' = [pc EXCEPT ![Reporter] =
                IF op[Reporter] = "getMetrics" THEN "readVP" ELSE "unlock"]
    /\ UNCHANGED <<metricsLock, programsVerified, validPrograms, op, tmp, calls,
                   retVP>>
    /\ UNCHANGED <<cuvars, insvars, covvars>>

\* Evaluation of mc.validPrograms in the return statement of getMetrics.
ReadValid ==
    /\ pc[Reporter] = "readVP"
    /\ retVP' = validPrograms
    /\ pc' = [pc EXCEPT ![Reporter] = "unlock"]
    /\ UNCHANGED <<metricsLock, programsVerified, validPrograms, op, tmp, calls,
                   retPV>>
    /\ UNCHANGED <<cuvars, insvars, covvars>>

\* The deferred Unlock() of a read operation; the values are returned to the caller.
UnlockRead ==
    /\ pc[Reporter] = "unlock"
    /\ metricsLock' = NoOwner
    /\ pc' = [pc EXCEPT ![Reporter] = IF covArray # <<>> THEN "holding" ELSE "idle"]
    /\ op' = [op EXCEPT ![Reporter] = "none"]
    /\ covVisited' = {}
    /\ covSeen' = {}
    /\ UNCHANGED <<programsVerified, validPrograms, tmp, calls, retPV, retVP>>
    /\ UNCHANGED <<coverageInfoMap, covArray>>
    /\ UNCHANGED <<cuvars, insvars>>

\* array[i] = v on a slice: the element of the slice, as a new value of it.
SliceStore(slice, i, v) == [slice EXCEPT !.elems[i] = v]

\* The caller of getMetrics overwrites the first covered line of entry i of the
\* breakdown it was handed.  The write lands in the array the slice points
\* into: in the raw map's, if the slice is the map's own.
SnapshotWrite(i) ==
    /\ pc[Reporter] = "holding"
    /\ i \in 1..Len(covArray)
    /\ covArray[i].coveredLines.elems # <<>>
    /\ LET slice == covArray[i].coveredLines
       IN  coverageInfoMap' =
               IF slice.backing \in DOMAIN coverageInfoMap
                  THEN [coverageInfoMap EXCEPT ![slice.backing] =
                            SliceStore(slice, 1, 0).elems
                                \o SubSeq(@, Len(slice.elems) + 1, Len(@))]
                  ELSE coverageInfoMap
    /\ covArray' = [covArray EXCEPT ![i].coveredLines = SliceStore(@, 1, 0)]
    /\ pc' = [pc EXCEPT ![Reporter] = "written"]
    /\ UNCHANGED <<metricsLock, programsVerified, validPrograms, op, tmp, calls,
                   retPV, retVP, covVisited, covSeen>>
    /\ UNCHANGED <<cuvars, insvars>>

\* The caller of getMetrics is done with the breakdown it was handed.
SnapshotDrop ==
    /\ pc[Reporter] \in {"holding", "written"}
    /\ covArray' = <<>>
    /\ pc' = [pc EXCEPT ![Reporter] = "idle"]
    /\ UNCHANGED <<metricsLock, programsVerified, validPrograms, op, tmp, calls,
                   retPV, retVP, coverageInfoMap, covVisited, covSeen>>
    /\ UNCHANGED <<cuvars, insvars>>

\* The coverage-collection collaborator records that line of filePath was
\* exercised.  It is code of another package: it cannot take metricsLock.
ProcessCoverage(filePath, line) ==
    /\ TotalLines(coverageInfoMap, DOMAIN coverageInfoMap) < MaxCoverageUpdates
    /\ coverageInfoMap' = MapAppend(coverageInfoMap, filePath, line)
    /\ covSeen' = IF pc[Reporter] \in {"range", "readPV", "readVP", "unlock"}
                       /\ op[Reporter] = "getMetrics"
                     THEN covSeen \cup {coverageInfoMap'}
                     ELSE covSeen
    /\ UNCHANGED <<covArray, covVisited>>
    /\ UNCHANGED <<mvars, cuvars, insvars>>

\* ----------------------------------------------------------- control unit
\* The nil value of a pointer, an interface or an error.
Nil == "nil"
Executors == {"executorA", "executorB"}
CoverageManagers == {"coverageA", "coverageB"}
Callers == 1..NumCallers

\* The StrategyName constants of the four strategy packages.
StrategyNames == {"parseverifier.StrategyName", "pointerarithmetic.StrategyName",
                  "playground.StrategyName", "stackcorruption.StrategyName"}
\* Flag values that are none of the four constants.
UnknownNames == {"", "no-such-strategy"}
Flags == StrategyNames \cup UnknownNames

\* A copy-paste slip: the playground case binds the stack-corruption strategy.
InitStratSwapped(flag, old) ==
    CASE flag = "parseverifier.StrategyName" -> "parseverifier.StrategyParseVerifierLog"
      [] flag = "pointerarithmetic.StrategyName" -> "pointerarithmetic.Strategy"
      [] flag = "playground.StrategyName" -> "stackcorruption.Strategy"
      [] flag = "stackcorruption.StrategyName" -> "stackcorruption.Strategy"
      [] OTHER -> old

\* switch fuzzStrategyFlag: the value of cu.strat after the switch; the default
\* case assigns nothing.
InitStrat(flag, old) ==
    CASE flag = "parseverifier.StrategyName" -> "parseverifier.StrategyParseVerifierLog"
      [] flag = "pointerarithmetic.StrategyName" -> "pointerarithmetic.Strategy"
      [] flag = "playground.StrategyName" -> "playground.Strategy"
      [] flag = "stackcorruption.StrategyName" -> "stackcorruption.Strategy"
      [] OTHER -> old

\* The error Init returns: the default case returns fmt.Errorf(...), the others nil.
InitErr(flag) ==
    IF flag \in StrategyNames THEN Nil ELSE "unknown fuzzing strategy"

\* cu.rdy = true placed before the switch instead of after it.
InitRdyEarly(flag, old) == TRUE

\* cu.rdy after Init: set to true only when the switch did not return an error.
InitRdy(flag, old) == IF InitErr(flag) = Nil THEN TRUE ELSE old

NoInit == [flag |-> Nil, executor |-> Nil, cm |-> Nil, err |-> Nil]
NoFuzz == [strat |-> Nil, e |-> Nil, cm |-> Nil, rdy |-> FALSE, init |-> NoInit]

\* A ControlUnit{} as constructed: every field has its zero value.
ControlUnitNew ==
    /\ strat = Nil
    /\ ex = Nil
    /\ cm = Nil
    /\ rdy = FALSE
    /\ lastInit = NoInit
    /\ okInit = NoInit
    /\ cupc = [c \in Callers |-> "idle"]
    /\ fuzzStarts = 0
    /\ lastFuzz = NoFuzz
    /\ panicked = FALSE

\* cu.Init(executor, coverageManager, runMode, fuzzStrategyFlag).  The parameters
\* coverageManager and runMode are not assigned to any field.
ControlUnitInit(executor, coverageManager, flag) ==
    /\ ~panicked
    /\ ex' = executor
    /\ strat' = InitStrat(flag, strat)
    /\ rdy' = InitRdy(flag, rdy)
    /\ UNCHANGED cm
    /\ lastInit' = [flag |-> flag, executor |-> executor, cm |-> coverageManager,
                    err |-> InitErr(flag)]
    /\ okInit' = IF InitErr(flag) = Nil THEN lastInit' ELSE okInit
    /\ UNCHANGED <<cupc, fuzzStarts, lastFuzz, panicked>>
    /\ UNCHANGED <<mvars, insvars, covvars>>

\* cu.IsReady()
IsReady == rdy

\* cu.RunFuzzer() called by c: cu.strat.Fuzz(cu.ex, cu.cm).  Calling a method of
\* a nil interface value panics before any Fuzz is entered.
RunFuzzer(c) ==
    /\ ~panicked
    /\ cupc[c] = "idle"
    /\ fuzzStarts < MaxRuns
    /\ IF strat = Nil
          THEN /\ panicked' = TRUE
               /\ UNCHANGED <<cupc, fuzzStarts, lastFuzz>>
          ELSE /\ cupc' = [cupc EXCEPT ![c] = "fuzzing"]
               /\ fuzzStarts' = fuzzStarts + 1
               /\ lastFuzz' = [strat |-> strat, e |-> ex, cm |-> cm, rdy |-> IsReady,
                               init |-> okInit]
               /\ UNCHANGED panicked
    /\ UNCHANGED <<strat, ex, cm, rdy, lastInit, okInit>>
    /\ UNCHANGED <<mvars, insvars, covvars>>

\* The strategy's Fuzz returns to RunFuzzer, which returns its error to c.
FuzzReturn(c) ==
    /\ cupc[c] = "fuzzing"
    /\ cupc' = [cupc EXCEPT ![c] = "idle"]
    /\ UNCHANGED <<strat, ex, cm, rdy, lastInit, okInit, fuzzStarts, lastFuzz, panicked>>
    /\ UNCHANGED <<mvars, insvars, covvars>>

\* ---------------------------------------------------------- instructions
\* Instruction classes, sizes, modes and atomic operation selectors of the
\* eBPF instruction format.
InsClassLd == 0
InsClassLdx == 1
InsClassSt == 2
InsClassStx == 3
StLdSizeW == 0
StLdSizeH == 8
StLdSizeB == 16
StLdSizeDW == 24
StLdModeIMM == 0
StLdModeMEM == 96
StLdModeATOMIC == 192
AluAdd == 0
AluOr == 64
AluAnd == 80
AluXor == 160

\* The registers r0..r10 and the pseudo register that tags a map-fd load.
RegR0 == "RegR0"
PseudoMapFD == "PseudoMapFD"
GeneralRegisters == {"RegR0", "RegR1", "RegR2", "RegR3", "RegR4", "RegR5",
                     "RegR6", "RegR7", "RegR8", "RegR9", "RegR10"}
RegisterNumber(r) ==
    CASE r = "RegR0" -> 0 [] r = "RegR1" -> 1 [] r = "RegR2" -> 2
      [] r = "RegR3" -> 3 [] r = "RegR4" -> 4 [] r = "RegR5" -> 5
      [] r = "RegR6" -> 6 [] r = "RegR7" -> 7 [] r = "RegR8" -> 8
      [] r = "RegR9" -> 9 [] r = "RegR10" -> 10 [] r = "PseudoMapFD" -> 1

\* A Go integer x = k * 2^32 + v with v in the int32 range: v is the value of
\* its low 32 bits read as a signed number, k counts the multiples of 2^32 above.
GoInt(k, v) == [k |-> k, v |-> v]
MaxInt32 == 2147483647
MinInt32 == -MaxInt32 - 1
\* int32(x): the conversion keeps the low 32 bits.
ToInt32(x) == x.v

\* The little-endian bytes of an n-byte two's complement number.
RECURSIVE LEBytes(_, _)
LEBytes(x, n) == IF n = 0 THEN <<>> ELSE <<x % 256>> \o LEBytes(x \div 256, n - 1)

\* One 64-bit instruction word, least significant byte first: opcode, the two
\* register nibbles, the 16-bit offset and the 32-bit immediate.
encodeImmediateStOrLdInstruction(class, size, mode, dst, src, imm, offset) ==
    <<class + size + mode, dst + 16 * src>> \o LEBytes(offset, 2) \o LEBytes(imm, 4)

\* uint64(0)
ZeroWord == <<0, 0, 0, 0, 0, 0, 0, 0>>

\* A slip in the class test: the pseudo word follows InsClassLdx instead.
GenerateBytecodeLdx(c) ==
    LET word == encodeImmediateStOrLdInstruction(c.InstructionClass, c.Size, c.Mode,
                    RegisterNumber(c.DstReg), RegisterNumber(c.SrcReg), c.Imm, c.Offset)
    IN  IF c.InstructionClass = InsClassLdx /\ c.Mode = StLdModeIMM
           THEN <<word, ZeroWord>>
           ELSE <<word>>

\* (c *MemoryInstruction) GenerateBytecode()
GenerateBytecode(c) ==
    LET word == encodeImmediateStOrLdInstruction(c.InstructionClass, c.Size, c.Mode,
                    RegisterNumber(c.DstReg), RegisterNumber(c.SrcReg), c.Imm, c.Offset)
    IN  IF c.InstructionClass = InsClassLd /\ c.Mode = StLdModeIMM
           THEN <<word, ZeroWord>>
           ELSE <<word>>

\* The dynamic types isIntType accepts as integers.
IntKinds == {"int", "int64", "int32"}
\* isIntType(src): whether src holds an integer, and its value as an int.
isIntType(src) ==
    IF src.kind \in IntKinds THEN <<TRUE, src.val>> ELSE <<FALSE, GoInt(0, 0)>>

\* The nil Instruction: the invalid-construction outcome.
NilInstruction == [nil |-> TRUE]

MemoryInstruction(class, dst, size, mode, srcReg, imm, offset) ==
    [InstructionClass |-> class, DstReg |-> dst, Size |-> size, Mode |-> mode,
     SrcReg |-> srcReg, Imm |-> imm, Offset |-> offset]

\* The final else branch falls through instead of returning nil: the
\* instruction is built from the zero values of srcReg, imm and insClass.
newStoreOperationNoReject(size, dstReg, src, offset) ==
    IF isIntType(src)[1]
       THEN MemoryInstruction(InsClassSt, dstReg, size, StLdModeMEM, RegR0,
                              ToInt32(isIntType(src)[2]), offset)
       ELSE IF src.kind = "*Register"
               THEN MemoryInstruction(InsClassStx, dstReg, size, StLdModeMEM,
                                      src.val, 0, offset)
               ELSE MemoryInstruction(0, dstReg, size, StLdModeMEM, Nil, 0, offset)

\* The two class constants exchanged between the branches.
newStoreOperationClassSwapped(size, dstReg, src, offset) ==
    IF isIntType(src)[1]
       THEN MemoryInstruction(InsClassStx, dstReg, size, StLdModeMEM, RegR0,
                              ToInt32(isIntType(src)[2]), offset)
       ELSE IF src.kind = "*Register"
               THEN MemoryInstruction(InsClassSt, dstReg, size, StLdModeMEM,
                                      src.val, 0, offset)
               ELSE NilInstruction

\* The Offset field left out of the struct literal, as in LdMapByFd.
newStoreOperationNoOffset(size, dstReg, src, offset) ==
    IF isIntType(src)[1]
       THEN MemoryInstruction(InsClassSt, dstReg, size, StLdModeMEM, RegR0,
                              ToInt32(isIntType(src)[2]), 0)
       ELSE IF src.kind = "*Register"
               THEN MemoryInstruction(InsClassStx, dstReg, size, StLdModeMEM,
                                      src.val, 0, 0)
               ELSE NilInstruction

newStoreOperation(size, dstReg, src, offset) ==
    IF isIntType(src)[1]
       THEN MemoryInstruction(InsClassSt, dstReg, size, StLdModeMEM, RegR0,
                              ToInt32(isIntType(src)[2]), offset)
       ELSE IF src.kind = "*Register"
               THEN MemoryInstruction(InsClassStx, dstReg, size, StLdModeMEM,
                                      src.val, 0, offset)
               ELSE NilInstruction

StDW(dst, src, offset) == newStoreOperation(StLdSizeDW, dst, src, offset)
StW(dst, src, offset) == newStoreOperation(StLdSizeW, dst, src, offset)
StH(dst, src, offset) == newStoreOperation(StLdSizeH, dst, src, offset)
StB(dst, src, offset) == newStoreOperation(StLdSizeB, dst, src, offset)

\* Imm is not set by the literal: it has the zero value.
newLoadToRegisterOperation(size, dstReg, src, offset) ==
    MemoryInstruction(InsClassLdx, dstReg, size, StLdModeMEM, src, 0, offset)

LdDW(dst, src, offset) == newLoadToRegisterOperation(StLdSizeDW, dst, src, offset)
LdW(dst, src, offset) == newLoadToRegisterOperation(StLdSizeW, dst, src, offset)
LdH(dst, src, offset) == newLoadToRegisterOperation(StLdSizeH, dst, src, offset)
LdB(dst, src, offset) == newLoadToRegisterOperation(StLdSizeB, dst, src, offset)

\* Offset is not set by the literal: it has the zero value.
LdMapByFd(dst, fd) ==
    MemoryInstruction(InsClassLd, dst, StLdSizeDW, StLdModeIMM, PseudoMapFD,
                      ToInt32(fd), 0)

newAtomicInstruction(dst, src, size, class, offset, operation) ==
    MemoryInstruction(class, dst, size, StLdModeATOMIC, src, operation, offset)

MemAdd64(dst, src, offset) == newAtomicInstruction(dst, src, StLdSizeDW, InsClassStx, offset, AluAdd)
MemAdd(dst, src, offset) == newAtomicInstruction(dst, src, StLdSizeW, InsClassStx, offset, AluAdd)
MemOr64(dst, src, offset) == newAtomicInstruction(dst, src, StLdSizeDW, InsClassStx, offset, AluOr)
MemOr(dst, src, offset) == newAtomicInstruction(dst, src, StLdSizeW, InsClassStx, offset, AluOr)
MemAnd64(dst, src, offset) == newAtomicInstruction(dst, src, StLdSizeDW, InsClassStx, offset, AluAnd)
MemAnd(dst, src, offset) == newAtomicInstruction(dst, src, StLdSizeW, InsClassStx, offset, AluAnd)
MemXor64(dst, src, offset) == newAtomicInstruction(dst, src, StLdSizeDW, InsClassStx, offset, AluXor)
\* A copy of MemOr whose operation was not changed to AluXor.
MemXorAsOr(dst, src, offset) == newAtomicInstruction(dst, src, StLdSizeW, InsClassStx, offset, AluOr)
MemXor(dst, src, offset) == newAtomicInstruction(dst, src, StLdSizeW, InsClassStx, offset, AluXor)

StoreHelpers == {"StDW", "StW", "StH", "StB"}
LoadHelpers == {"LdDW", "LdW", "LdH", "LdB"}
AtomicHelpers == {"MemAdd64", "MemAdd", "MemOr64", "MemOr",
                  "MemAnd64", "MemAnd", "MemXor64", "MemXor"}

\* The arguments callers pass to the constructors.
Offsets == {-32768, -8, 0, 32767}
IntValues == {GoInt(0, 0), GoInt(0, 1), GoInt(0, -1), GoInt(0, MaxInt32),
              GoInt(0, MinInt32), GoInt(1, 0), GoInt(-1, MaxInt32)}
Operands ==
    [kind : IntKinds, val : IntValues]
        \cup [kind : {"*Register"}, val : GeneralRegisters]
        \cup [kind : {"string", "float64", "Register", "nil"}, val : {Nil}]

NoReq == [ctor |-> Nil]

InsInit ==
    /\ req = NoReq
    /\ ins = NilInstruction
    /\ bytecode = <<>>
    /\ poc = <<>>
    /\ program = <<>>
    /\ encoded = <<>>

\* A caller builds a store with one of the St* helpers.
CallStore(h, dst, src, offset) ==
    /\ req = NoReq
    /\ req' = [ctor |-> h, dst |-> dst, src |-> src, offset |-> offset]
    /\ ins' = CASE h = "StDW" -> StDW(dst, src, offset)
                [] h = "StW" -> StW(dst, src, offset)
                [] h = "StH" -> StH(dst, src, offset)
                [] h = "StB" -> StB(dst, src, offset)
    /\ UNCHANGED <<bytecode, poc, program, encoded>>
    /\ UNCHANGED <<mvars, cuvars, covvars>>

\* A caller builds a load with one of the Ld* helpers.
CallLoad(h, dst, src, offset) ==
    /\ req = NoReq
    /\ req' = [ctor |-> h, dst |-> dst, src |-> src, offset |-> offset]
    /\ ins' = CASE h = "LdDW" -> LdDW(dst, src, offset)
                [] h = "LdW" -> LdW(dst, src, offset)
                [] h = "LdH" -> LdH(dst, src, offset)
                [] h = "LdB" -> LdB(dst, src, offset)
    /\ UNCHANGED <<bytecode, poc, program, encoded>>
    /\ UNCHANGED <<mvars, cuvars, covvars>>

\* A caller builds the map-fd load.
CallLdMapByFd(dst, fd) ==
    /\ req = NoReq
    /\ req' = [ctor |-> "LdMapByFd", dst |-> dst, fd |-> fd]
    /\ ins' = LdMapByFd(dst, fd)
    /\ UNCHANGED <<bytecode, poc, program, encoded>>
    /\ UNCHANGED <<mvars, cuvars, covvars>>

\* A caller builds an atomic operation with one of the Mem* helpers.
CallAtomic(h, dst, src, offset) ==
    /\ req = NoReq
    /\ req' = [ctor |-> h, dst |-> dst, src |-> src, offset |-> offset]
    /\ ins' = CASE h = "MemAdd64" -> MemAdd64(dst, src, offset)
                [] h = "MemAdd" -> MemAdd(dst, src, offset)
                [] h = "MemOr64" -> MemOr64(dst, src, offset)
                [] h = "MemOr" -> MemOr(dst, src, offset)
                [] h = "MemAnd64" -> MemAnd64(dst, src, offset)
                [] h = "MemAnd" -> MemAnd(dst, src, offset)
                [] h = "MemXor64" -> MemXor64(dst, src, offset)
                [] h = "MemXor" -> MemXor(dst, src, offset)
    /\ UNCHANGED <<bytecode, poc, program, encoded>>
    /\ UNCHANGED <<mvars, cuvars, covvars>>

\* The caller, having checked the instruction is not nil, encodes it.
Encode ==
    /\ req # NoReq
    /\ ins # NilInstruction
    /\ bytecode = <<>>
    /\ bytecode' = GenerateBytecode(ins)
    /\ UNCHANGED <<req, ins, poc, program, encoded>>
    /\ UNCHANGED <<mvars, cuvars, covvars>>

\* The instruction is discarded at the end of the iteration.
Discard ==
    /\ req # NoReq
    /\ ins = NilInstruction \/ bytecode # <<>>
    /\ req' = NoReq
    /\ ins' = NilInstruction
    /\ bytecode' = <<>>
    /\ poc' = <<>>
    /\ UNCHANGED <<program, encoded>>
    /\ UNCHANGED <<mvars, cuvars, covvars>>

\* ---------------------------------------------------- reproduction text
\* (r *Register) ToString(): the canonical name of a register.
RegisterToString(r) ==
    CASE r = "RegR0" -> "BPF_REG_0" [] r = "RegR1" -> "BPF_REG_1"
      [] r = "RegR2" -> "BPF_REG_2" [] r = "RegR3" -> "BPF_REG_3"
      [] r = "RegR4" -> "BPF_REG_4" [] r = "RegR5" -> "BPF_REG_5"
      [] r = "RegR6" -> "BPF_REG_6" [] r = "RegR7" -> "BPF_REG_7"
      [] r = "RegR8" -> "BPF_REG_8" [] r = "RegR9" -> "BPF_REG_9"
      [] r = "RegR10" -> "BPF_REG_10" [] r = "PseudoMapFD" -> "BPF_PSEUDO_MAP_FD"

\* What a format verb prints nothing for: the macro has no such argument.
NoArg == "-"

\* One line of macro text, kept as the format string chosen and the arguments
\* printed into it: two lines are the same text exactly when they agree on both.
MacroLine(macro, insClass, size, dst, src, imm, offset) ==
    [macro |-> macro, insClass |-> insClass, size |-> size, dst |-> dst,
     src |-> src, imm |-> imm, offset |-> offset]

\* (c *MemoryInstruction) GeneratePoc()
GeneratePoc(c) ==
    LET insClass == IF c.InstructionClass = InsClassStx THEN "BPF_STX"
                    ELSE IF c.InstructionClass = InsClassSt THEN "BPF_ST"
                    ELSE "BPF_LDX"
        size == CASE c.Size = StLdSizeW -> "BPF_W"
                  [] c.Size = StLdSizeH -> "BPF_H"
                  [] c.Size = StLdSizeB -> "BPF_B"
                  [] c.Size = StLdSizeDW -> "BPF_DW"
                  [] OTHER -> "unknown"
        macro ==
            IF c.InstructionClass = InsClassLd /\ c.Mode = StLdModeIMM
               THEN MacroLine("BPF_LD_MAP_FD", NoArg, NoArg, RegisterToString(c.DstReg),
                              NoArg, 0, 0)
            ELSE IF c.InstructionClass = InsClassStx \/ c.InstructionClass = InsClassLdx
               THEN MacroLine("BPF_MEM_OPERATION", insClass, size, RegisterToString(c.DstReg),
                              RegisterToString(c.SrcReg), 0, c.Offset)
            ELSE MacroLine("BPF_MEM_IMM_OPERATION", insClass, size, RegisterToString(c.DstReg),
                           NoArg, c.Imm, c.Offset)
    IN  <<macro>>

\* The caller, having checked the instruction is not nil, asks for its
\* reproduction text.
Repro ==
    /\ req # NoReq
    /\ ins # NilInstruction
    /\ poc = <<>>
    /\ poc' = GeneratePoc(ins)
    /\ UNCHANGED <<req, ins, bytecode, program, encoded>>
    /\ UNCHANGED <<mvars, cuvars, covvars>>

\* ------------------------------------------------------------ playground
InsClassJmp == 5
InsClassAlu64 == 7
InsSrcImm == 0
AluMov == 176
JmpExit == 144

\* An arithmetic or jump instruction.
Operation(class, opcode, insSrc, dst, srcReg, imm, offset) ==
    [InstructionClass |-> class, Opcode |-> opcode, InsSrc |-> insSrc,
     DstReg |-> dst, SrcReg |-> srcReg, Imm |-> imm, Offset |-> offset]

\* Mov64(dst, src) with an integer constant src.
Mov64(dst, src) ==
    Operation(InsClassAlu64, AluMov, InsSrcImm, dst, RegR0, ToInt32(src), 0)

\* Exit()
Exit == Operation(InsClassJmp, JmpExit, InsSrcImm, RegR0, RegR0, 0, 0)

\* The one word of an arithmetic or jump instruction.
OperationBytecode(c) ==
    <<<<c.Opcode + c.InsSrc + c.InstructionClass,
        RegisterNumber(c.DstReg) + 16 * RegisterNumber(c.SrcReg)>>
          \o LEBytes(c.Offset, 2) \o LEBytes(c.Imm, 4)>>

\* InstructionSequence(instructions...): the instructions in the order given,
\* or no program and an error when one of them is nil.
InstructionSequence(instructions) ==
    IF \E i \in 1..Len(instructions) : "nil" \in DOMAIN instructions[i]
       THEN [root |-> <<>>, err |-> "nil instruction"]
       ELSE [root |-> instructions, err |-> Nil]

\* The generator lists the exit before the move.
GenerateExitFirst == InstructionSequence(<<Exit, Mov64(RegR0, GoInt(0, 0))>>).root

\* (g *Generator) Generate()
Generate == InstructionSequence(<<Mov64(RegR0, GoInt(0, 0)), Exit>>).root

\* The words of a program: those of each instruction, in program order.
RECURSIVE EncodeInstructions(_)
EncodeInstructions(p) ==
    IF p = <<>> THEN <<>>
    ELSE (IF Head(p).InstructionClass \in {InsClassAlu64, InsClassJmp}
             THEN OperationBytecode(Head(p))
             ELSE GenerateBytecode(Head(p)))
         \o EncodeInstructions(Tail(p))

\* The playground strategy asks its generator for a program.
CallGenerate ==
    /\ program = <<>>
    /\ program' = Generate
    /\ UNCHANGED <<req, ins, bytecode, poc, encoded>>
    /\ UNCHANGED <<mvars, cuvars, covvars>>

\* The strategy encodes the program for the executor.
EncodeProgram ==
    /\ program # <<>>
    /\ encoded = <<>>
    /\ encoded' = EncodeInstructions(program)
    /\ UNCHANGED <<req, ins, bytecode, poc, program>>
    /\ UNCHANGED <<mvars, cuvars, covvars>>

\* The iteration ends and the program is dropped.
DiscardProgram ==
    /\ encoded # <<>>
    /\ program' = <<>>
    /\ encoded' = <<>>
    /\ UNCHANGED <<req, ins, bytecode, poc>>
    /\ UNCHANGED <<mvars, cuvars, covvars>>

\* -------------------------------------------------------- specifications
Init == MetricsInit /\ ControlUnitNew /\ InsInit /\ CoverageInit

\* Stress test of the metrics: any thread, any record operation, any order.
Next ==
    \/ \E t \in Writers, o \in RecordOps : Record(t, o)
    \/ \E t \in Writers : LoadCounter(t)
    \/ \E t \in Writers : StoreCounter(t)
    \/ \E t \in Writers : UnlockRecord(t)
    \/ \E o \in ReadOps : LockRead(o)
    \/ RangeDone
    \/ ReadVerified
    \/ ReadValid
    \/ UnlockRead

Spec == Init /\ [][Next]_vars

\* Fuzzing threads that record every program as verified before valid.
NextFuzz ==
    \/ \E t \in Writers, o \in RecordOps : FuzzRecord(t, o)
    \/ \E t \in Writers : LoadCounter(t)
    \/ \E t \in Writers : StoreCounter(t)
    \/ \E t \in Writers : UnlockRecord(t)
    \/ \E o \in ReadOps : LockRead(o)
    \/ RangeDone
    \/ ReadVerified
    \/ ReadValid
    \/ UnlockRead

SpecFuzz == Init /\ [][NextFuzz]_vars

\* The reporter reading the metrics while the coverage collaborator and one
\* fuzzing thread are at work.
NextCoverage ==
    \/ \E filePath \in Paths, line \in Lines : ProcessCoverage(filePath, line)
    \/ \E o \in RecordOps : FuzzRecord(1, o)
    \/ LoadCounter(1)
    \/ StoreCounter(1)
    \/ UnlockRecord(1)
    \/ \E o \in ReadOps : LockRead(o)
    \/ \E filePath \in Paths : RangeStep(filePath)
    \/ RangeDone
    \/ ReadVerified
    \/ ReadValid
    \/ UnlockRead
    \/ \E i \in 1..Cardinality(Paths) : SnapshotWrite(i)
    \/ SnapshotDrop

SpecCoverage == Init /\ [][NextCoverage]_vars

\* One fuzzing thread that submits programs to an executor which may never
\* return, and the reporter whose calls wait for metricsLock.
NextLive ==
    \/ Submit(1)
    \/ ExecutorReturn(1)
    \/ \E o \in RecordOps : FuzzRecord(1, o)
    \/ LoadCounter(1)
    \/ StoreCounter(1)
    \/ UnlockRecord(1)
    \/ \E o \in ReadOps : CallRead(o)
    \/ AcquireRead
    \/ RangeDone
    \/ ReadVerified
    \/ ReadValid
    \/ UnlockRead

\* Fair scheduling: a thread that can take its next step inside a metrics
\* operation takes it; a sync.Mutex hands the lock to a waiter that keeps
\* finding it free.  Nothing is assumed of the executor or of new calls.
FairScheduling ==
    /\ WF_vars(LoadCounter(1))
    /\ WF_vars(StoreCounter(1))
    /\ WF_vars(UnlockRecord(1))
    /\ SF_vars(AcquireRead)
    /\ WF_vars(RangeDone)
    /\ WF_vars(ReadVerified)
    /\ WF_vars(ReadValid)
    /\ WF_vars(UnlockRead)

SpecLive == Init /\ [][NextLive]_vars /\ FairScheduling

\* The control unit under any sequence of Init and RunFuzzer calls.
NextControlUnit ==
    \/ \E e \in Executors, c \in CoverageManagers, f \in Flags : ControlUnitInit(e, c, f)
    \/ \E c \in Callers : RunFuzzer(c)
    \/ \E c \in Callers : FuzzReturn(c)

SpecControlUnit == Init /\ [][NextControlUnit]_vars

\* One memory instruction built by any constructor, encoded, printed, then
\* discarded; one playground program generated, encoded, then dropped.
NextInstruction ==
    \/ /\ req = NoReq
       /\ \E h \in StoreHelpers, dst \in GeneralRegisters, src \in Operands,
             offset \in Offsets : CallStore(h, dst, src, offset)
    \/ /\ req = NoReq
       /\ \E h \in LoadHelpers, dst \in GeneralRegisters, src \in GeneralRegisters,
             offset \in Offsets : CallLoad(h, dst, src, offset)
    \/ /\ req = NoReq
       /\ \E dst \in GeneralRegisters, fd \in IntValues : CallLdMapByFd(dst, fd)
    \/ /\ req = NoReq
       /\ \E h \in AtomicHelpers, dst \in GeneralRegisters, src \in GeneralRegisters,
             offset \in Offsets : CallAtomic(h, dst, src, offset)
    \/ Encode
    \/ Repro
    \/ Discard
    \/ CallGenerate
    \/ EncodeProgram
    \/ DiscardProgram

SpecInstruction == Init /\ [][NextInstruction]_vars

\* ------------------------------------------------------ metrics properties
AllCallsReturned ==
    \A t \in Writers :
        /\ pc[t] = "idle"
        /\ \A o \in RecordOps : calls[t][o] = CallsPerThread

\* C1: once NumThreads threads have each completed CallsPerThread calls of
\* recordVerifiedProgram and of recordValidProgram, in any interleaving, both
\* counters equal NumThreads * CallsPerThread: no increment is lost.
NoLostIncrement ==
    AllCallsReturned =>
        /\ programsVerified = NumThreads * CallsPerThread
        /\ validPrograms = NumThreads * CallsPerThread

\* C1 witness: every call of the stress test has returned.
StressTestDone == AllCallsReturned /\ programsVerified = NumThreads * CallsPerThread

\* C2: every snapshot getMetrics is about to return has
\* validPrograms <= programsVerified, when fuzzing threads record a program as
\* verified before they record it as valid.
SnapshotValidWithinVerified ==
    (pc[Reporter] = "unlock" /\ op[Reporter] = "getMetrics") => retVP <= retPV

\* C2 witness: getMetrics returns a snapshot taken between the two record calls
\* of a program, after an earlier program was counted as valid.
SnapshotBetweenRecords ==
    /\ pc[Reporter] = "unlock"
    /\ op[Reporter] = "getMetrics"
    /\ retVP >= 1
    /\ retPV > retVP

\* C8: no step lowers programsVerified or validPrograms, a read (either read
\* operation; retPV and retVP hold the values reads return) never returns less
\* than the read before it, and the steps of a read leave both counters as they are.
CountersMonotonic ==
    [][ /\ programsVerified' >= programsVerified
        /\ validPrograms' >= validPrograms
        /\ retPV' >= retPV
        /\ retVP' >= retVP
        /\ (pc'[Reporter] # pc[Reporter]) =>
               UNCHANGED <<programsVerified, validPrograms>> ]_vars

\* C8 witness: a read returned non-zero counters, a counter has grown since,
\* and the reporter is about to read it again.
SecondReadAfterGrowth ==
    /\ pc[Reporter] = "readPV"
    /\ retPV >= 1
    /\ retVP >= 1
    /\ programsVerified > retPV

\* ------------------------------------------------- control unit properties
\* The strategy each name stands for.
ExpectedStrategy ==
    [f \in StrategyNames |->
        CASE f = "parseverifier.StrategyName" -> "parseverifier.StrategyParseVerifierLog"
          [] f = "pointerarithmetic.StrategyName" -> "pointerarithmetic.Strategy"
          [] f = "playground.StrategyName" -> "playground.Strategy"
          [] f = "stackcorruption.StrategyName" -> "stackcorruption.Strategy"]

\* C3: after an Init with an unrecognized strategy name, Init has returned an
\* error and IsReady() is false, whatever the state before the call.
UnknownInitLeavesNotReady ==
    lastInit.flag \in UnknownNames => (lastInit.err # Nil /\ ~IsReady)

\* C4: an Init with a recognized name returns no error, leaves IsReady() true
\* and binds the strategy of that name; distinct names bind distinct strategies;
\* after any sequence of Init calls the bound strategy is that of the most
\* recent successful Init.
RecognizedInitBinds ==
    /\ lastInit.flag \in StrategyNames =>
           /\ lastInit.err = Nil
           /\ IsReady
           /\ strat = ExpectedStrategy[lastInit.flag]
    /\ okInit.flag # Nil => strat = ExpectedStrategy[okInit.flag]
    /\ \A a, b \in StrategyNames : a # b => InitStrat(a, Nil) # InitStrat(b, Nil)

\* C4 witness: playground was bound by a successful Init and a later Init with
\* an unknown name has failed.
PlaygroundBoundThenFailedInit ==
    /\ okInit.flag = "playground.StrategyName"
    /\ lastInit.flag \in UnknownNames
    /\ strat = "playground.Strategy"

\* C5: the strategy's Fuzz receives exactly the executor and the coverage
\* manager that were passed to the successful Init that bound it.
FuzzGetsInitCollaborators ==
    lastFuzz.strat # Nil =>
        /\ lastFuzz.e = lastFuzz.init.executor
        /\ lastFuzz.cm = lastFuzz.init.cm

\* C6: over any sequence of RunFuzzer calls the Fuzz loop is started at most
\* once, and never while it is already running.
FuzzStartedAtMostOnce ==
    /\ fuzzStarts <= 1
    /\ Cardinality({c \in Callers : cupc[c] = "fuzzing"}) <= 1

\* C7: Fuzz is invoked only while IsReady() is true, a unit that is not ready
\* has never entered Fuzz, and a ready unit always has a strategy bound.
NotReadyNeverRuns ==
    /\ IsReady => strat # Nil
    /\ ~IsReady => (fuzzStarts = 0 /\ \A c \in Callers : cupc[c] = "idle")
    /\ lastFuzz.strat # Nil => lastFuzz.rdy

\* C7 witness: RunFuzzer was called on a unit left not ready by a failed Init;
\* the call panicked without entering any Fuzz.
RunOnNotReadyPanics ==
    /\ panicked
    /\ ~IsReady
    /\ lastInit.flag \in UnknownNames
    /\ fuzzStarts = 0

\* -------------------------------------------------- instruction properties
\* C9: the bytecode of a memory instruction has two words, the second all
\* zero, when its class is InsClassLd and its mode StLdModeIMM, which is what
\* LdMapByFd builds for every fd; every instruction built by a St*, Ld* or
\* Mem* helper has exactly one word.
PseudoWordOnlyAfterLdImm ==
    bytecode # <<>> =>
        /\ IF ins.InstructionClass = InsClassLd /\ ins.Mode = StLdModeIMM
              THEN Len(bytecode) = 2 /\ bytecode[2] = ZeroWord
              ELSE Len(bytecode) = 1
        /\ req.ctor = "LdMapByFd" => (Len(bytecode) = 2 /\ bytecode[2] = ZeroWord)
        /\ req.ctor \in StoreHelpers \cup LoadHelpers \cup AtomicHelpers =>
               Len(bytecode) = 1

\* C9 witness: LdMapByFd of a negative fd has been encoded into two words.
NegativeFdEncoded ==
    /\ req.ctor = "LdMapByFd"
    /\ req.fd = GoInt(0, -1)
    /\ Len(bytecode) = 2

FullyPopulated(i) ==
    /\ i # NilInstruction
    /\ i.InstructionClass \in {InsClassSt, InsClassStx}
    /\ i.DstReg \in GeneralRegisters
    /\ i.SrcReg \in GeneralRegisters
    /\ i.Size \in {StLdSizeDW, StLdSizeW, StLdSizeH, StLdSizeB}
    /\ i.Mode = StLdModeMEM
    /\ i.Imm \in MinInt32..MaxInt32
    /\ i.Offset \in Offsets

HelperSize(h) ==
    CASE h \in {"StDW", "LdDW"} -> StLdSizeDW
      [] h \in {"StW", "LdW"} -> StLdSizeW
      [] h \in {"StH", "LdH"} -> StLdSizeH
      [] h \in {"StB", "LdB"} -> StLdSizeB
      [] h \in {"MemAdd64", "MemOr64", "MemAnd64", "MemXor64"} -> StLdSizeDW
      [] h \in {"MemAdd", "MemOr", "MemAnd", "MemXor"} -> StLdSizeW

\* C11: a store built from an integer constant has class InsClassSt and source
\* register RegR0; a store built from a register has class InsClassStx and
\* immediate 0; both have mode StLdModeMEM and the size of the helper invoked.
StoreClassByOperand ==
    (req.ctor \in StoreHelpers /\ ins # NilInstruction) =>
        /\ req.src.kind \in IntKinds =>
               (ins.InstructionClass = InsClassSt /\ ins.SrcReg = RegR0)
        /\ req.src.kind = "*Register" =>
               /\ ins.InstructionClass = InsClassStx
               /\ ins.SrcReg = req.src.val
               /\ ins.Imm = 0
        /\ ins.Mode = StLdModeMEM
        /\ ins.Size = HelperSize(req.ctor)

\* C11 witness: StH was called with a register operand.
StoreHalfOfRegisterBuilt ==
    /\ req.ctor = "StH"
    /\ req.src.kind = "*Register"
    /\ ins.InstructionClass = InsClassStx

\* What the fields of an encoded word read back as.
DecodedDst(w) == w[2] % 16
DecodedSize(w) == ((w[1] \div 8) % 4) * 8
DecodedOffset(w) ==
    IF w[4] >= 128 THEN (w[4] - 256) * 256 + w[3] ELSE w[4] * 256 + w[3]
DecodedImm(w) ==
    (IF w[8] >= 128 THEN w[8] - 256 ELSE w[8]) * 16777216
        + w[7] * 65536 + w[6] * 256 + w[5]

StoreImmEncoded ==
    /\ req.ctor \in StoreHelpers
    /\ req.src.kind \in IntKinds
    /\ bytecode # <<>>

RegistersAndOffsetRoundTrip ==
    /\ ins.DstReg = req.dst
    /\ DecodedDst(bytecode[1]) = RegisterNumber(req.dst)
    /\ ins.Offset = req.offset
    /\ DecodedOffset(bytecode[1]) = req.offset
    /\ ins.Size = HelperSize(req.ctor)
    /\ DecodedSize(bytecode[1]) = HelperSize(req.ctor)

\* C12 as stated: for every integer constant the store helpers accept, of any
\* magnitude, the destination register, offset, size and immediate of the
\* instruction and of its encoded word equal the arguments of the helper.
StoreImmRoundTripsAnyMagnitude ==
    StoreImmEncoded =>
        /\ RegistersAndOffsetRoundTrip
        /\ GoInt(0, ins.Imm) = req.src.val
        /\ GoInt(0, DecodedImm(bytecode[1])) = req.src.val

\* C12 amended: the round trip holds for every integer constant in the int32
\* range; of a constant outside it the immediate is the low 32 bits, and the
\* destination register, offset and size still round-trip.
StoreImmRoundTripsInt32 ==
    StoreImmEncoded =>
        /\ RegistersAndOffsetRoundTrip
        /\ ins.Imm = DecodedImm(bytecode[1])
        /\ req.src.val.k = 0 => GoInt(0, DecodedImm(bytecode[1])) = req.src.val
        /\ req.src.val.k # 0 =>
               /\ GoInt(0, DecodedImm(bytecode[1])) # req.src.val
               /\ DecodedImm(bytecode[1]) = req.src.val.v

\* C12 witness: a store of the most negative int32 at a negative offset has
\* been encoded.
StoreOfMinInt32Encoded ==
    /\ StoreImmEncoded
    /\ req.src.val = GoInt(0, MinInt32)
    /\ req.offset = -8
    /\ DecodedImm(bytecode[1]) = MinInt32

\* The operation selector each atomic helper asks for.
HelperOperation(h) ==
    CASE h \in {"MemAdd64", "MemAdd"} -> AluAdd
      [] h \in {"MemOr64", "MemOr"} -> AluOr
      [] h \in {"MemAnd64", "MemAnd"} -> AluAnd
      [] h \in {"MemXor64", "MemXor"} -> AluXor

\* C13: every atomic helper builds an instruction of mode StLdModeATOMIC whose
\* immediate is the selector of the requested operation, whose size is word
\* for the 32-bit helpers and double word for the 64-bit ones, and whose
\* destination, source and offset are the arguments.
AtomicHelperFields ==
    req.ctor \in AtomicHelpers =>
        /\ ins.Mode = StLdModeATOMIC
        /\ ins.Imm = HelperOperation(req.ctor)
        /\ ins.Size = HelperSize(req.ctor)
        /\ ins.DstReg = req.dst
        /\ ins.SrcReg = req.src
        /\ ins.Offset = req.offset

\* C13 witness: MemXor has built its instruction.
MemXorBuilt ==
    /\ req.ctor = "MemXor"
    /\ ins.Imm = AluXor
    /\ ins.Size = StLdSizeW

\* The instructions the St*, Ld* and Mem* helpers build for one destination
\* register and one offset.
BuiltAt(dst, offset) ==
    {StDW(dst, o, offset) : o \in Operands} \cup {StW(dst, o, offset) : o \in Operands}
        \cup {StH(dst, o, offset) : o \in Operands}
        \cup {StB(dst, o, offset) : o \in Operands}
        \cup {LdDW(dst, r, offset) : r \in GeneralRegisters}
        \cup {LdW(dst, r, offset) : r \in GeneralRegisters}
        \cup {LdH(dst, r, offset) : r \in GeneralRegisters}
        \cup {LdB(dst, r, offset) : r \in GeneralRegisters}
        \cup {MemAdd64(dst, r, offset) : r \in GeneralRegisters}
        \cup {MemAdd(dst, r, offset) : r \in GeneralRegisters}
        \cup {MemOr64(dst, r, offset) : r \in GeneralRegisters}
        \cup {MemOr(dst, r, offset) : r \in GeneralRegisters}
        \cup {MemAnd64(dst, r, offset) : r \in GeneralRegisters}
        \cup {MemAnd(dst, r, offset) : r \in GeneralRegisters}
        \cup {MemXor64(dst, r, offset) : r \in GeneralRegisters}
        \cup {MemXor(dst, r, offset) : r \in GeneralRegisters}

\* C18: GeneratePoc returns exactly one macro line, and an instruction built by
\* a St*, Ld* or Mem* helper whose reproduction text equals that of the
\* instruction printed has the same class, size, mode, registers, immediate
\* and offset.
ReproTextDeterminesInstruction ==
    (poc # <<>> /\ req.ctor \in StoreHelpers \cup LoadHelpers \cup AtomicHelpers) =>
        /\ Len(poc) = 1
        /\ \A other \in BuiltAt(req.dst, req.offset) \ {NilInstruction} :
               GeneratePoc(other) = poc => other = ins

\* C19: the playground program is [Mov64(RegR0, 0), Exit] in that order, and
\* its encoding has exactly two words, the first of which decodes to
\* destination register r0.
PlaygroundProgramIsMovExit ==
    /\ program # <<>> =>
           /\ Len(program) = 2
           /\ program[1] = Mov64(RegR0, GoInt(0, 0))
           /\ program[2] = Exit
    /\ encoded # <<>> =>
           /\ Len(encoded) = 2
           /\ encoded = OperationBytecode(program[1]) \o OperationBytecode(program[2])
           /\ encoded[1] = <<183, 0, 0, 0, 0, 0, 0, 0>>
           /\ encoded[2] = <<149, 0, 0, 0, 0, 0, 0, 0>>
           /\ DecodedDst(encoded[1]) = RegisterNumber(RegR0)

\* C19 witness: the playground program has been generated and encoded.
PlaygroundProgramEncoded ==
    /\ Len(program) = 2
    /\ Len(encoded) = 2

\* C20: an Init that fails with an unknown strategy name leaves the bound
\* strategy, the stored executor, the stored coverage manager and the ready
\* flag as they were, so the stored executor is always the one passed to the
\* successful Init that bound the strategy.
FailedInitChangesNothing ==
    /\ [][(lastInit' # lastInit /\ lastInit'.err # Nil) =>
              UNCHANGED <<strat, ex, cm, rdy>>]_vars
    /\ [](okInit.flag # Nil => ex = okInit.executor)

\* The breakdown lists exactly the paths of m, each with the lines m has for it.
BreakdownOf(m) ==
    /\ Len(covArray) = Cardinality(DOMAIN m)
    /\ \A q \in DOMAIN m :
           \E i \in 1..Len(covArray) :
               /\ covArray[i].fullPath = q
               /\ covArray[i].coveredLines.elems = m[q]

GetMetricsReturning == pc[Reporter] = "unlock" /\ op[Reporter] = "getMetrics"

\* C15: the raw map does not change while getMetrics is in its range loop, and
\* the breakdown getMetrics returns equals the raw map as it was at one instant
\* of the call.
BreakdownIsOneInstant ==
    /\ [][pc[Reporter] = "range" => coverageInfoMap' = coverageInfoMap]_vars
    /\ [](GetMetricsReturning => \E m \in covSeen : BreakdownOf(m))

\* Strings to split: the paths, the empty string, a lone and a trailing separator.
SplitSamples == Paths \cup {<<>>, <<"/">>, <<"a", "/">>, <<"/", "a", "/", "b">>}

\* C16: no path splits into nothing, so no path is skipped; every CoverageInfo
\* has the final segment of its path as fileName, the path as fullPath and
\* lines the raw map held for that path, in the map's order; no path has two
\* entries; and of a raw map that did not change during the call the
\* breakdown has exactly one entry per path, with exactly the map's lines.
CoverageDerivation ==
    /\ \A str \in SplitSamples : Len(Split(str)) >= 1
    /\ Split(<<"a", "/", "b">>) = <<(<<"a">>), (<<"b">>)>>
    /\ pc[Reporter] \in {"range", "readPV", "readVP", "unlock"} =>
           \A i \in 1..Len(covArray) :
               /\ covArray[i].fullPath \in DOMAIN coverageInfoMap
               /\ covArray[i].fileName =
                      Split(covArray[i].fullPath)[Len(Split(covArray[i].fullPath))]
               /\ covArray[i].fullPath = <<"a", "/", "b">> =>
                      covArray[i].fileName = <<"b">>
               /\ \E m \in covSeen :
                      /\ covArray[i].fullPath \in DOMAIN m
                      /\ covArray[i].coveredLines.elems = m[covArray[i].fullPath]
               /\ \A j \in 1..Len(covArray) :
                      covArray[j].fullPath = covArray[i].fullPath => j = i
    /\ (GetMetricsReturning /\ covSeen = {coverageInfoMap}) =>
           BreakdownOf(coverageInfoMap)

\* C16 witness: getMetrics is returning the breakdown of a raw map that holds
\* the lines of a path of two segments out of order.
UnsortedLinesReported ==
    /\ GetMetricsReturning
    /\ covSeen = {coverageInfoMap}
    /\ Len(covArray) = 1
    /\ covArray[1].fullPath = <<"a", "/", "b">>
    /\ covArray[1].fileName = <<"b">>
    /\ covArray[1].coveredLines.elems = <<2, 1>>

\* C17: no step of getMetrics or getProgramsVerified, and no later write of the
\* caller to the breakdown returned, changes programsVerified, validPrograms or
\* the raw map; the range loop runs only with metricsLock held by the reader;
\* the coveredLines of the breakdown never point into the raw map's arrays.
ReadsChangeNothing ==
    /\ [][pc'[Reporter] # pc[Reporter] =>
              /\ programsVerified' = programsVerified
              /\ validPrograms' = validPrograms
              /\ coverageInfoMap' = coverageInfoMap]_vars
    /\ [](pc[Reporter] = "range" => metricsLock = Reporter)
    /\ [](\A i \in 1..Len(covArray) :
              covArray[i].coveredLines.backing \notin DOMAIN coverageInfoMap)

\* C17 witness: the caller has overwritten a line of the breakdown it was
\* handed; the raw map still has the line, and counters have been recorded.
SnapshotOverwritten ==
    /\ pc[Reporter] = "written"
    /\ programsVerified > 0
    /\ \E i \in 1..Len(covArray) :
           /\ covArray[i].coveredLines.elems[1] = 0
           /\ coverageInfoMap[covArray[i].fullPath][1] # 0

\* C14: a fuzzing thread blocked in the executor does not hold metricsLock, and
\* under fair scheduling every call of the reporter to getProgramsVerified or
\* getMetrics returns, also when the verifier call never does.
WedgedVerifierNeverFreezesReporting ==
    /\ [](\A t \in Writers : pc[t] = "executor" => metricsLock # t)
    /\ (pc[Reporter] # "idle") ~> (pc[Reporter] = "idle")

\* C14 witness: getMetrics is about to return counters recorded earlier while
\* the fuzzing thread is blocked in the executor.
GetMetricsReturnsWhileBlocked ==
    /\ pc[1] = "executor"
    /\ GetMetricsReturning
    /\ retPV > 0

====
